---- MODULE Spec2Model ----
(***************************************************************************)
(* Model of molbox_tester/main.py: the MolboxTester poller (connect,       *)
(* disconnect, send_command, run) against a line-oriented Transport        *)
(* (telnetlib3) whose outcomes are chosen nondeterministically.            *)
(***************************************************************************)
EXTENDS Integers, Sequences, FiniteSets, TLC

VARIABLES reader, writer, pc, success, interval, fake, conns, hist, fails, slept,
          file, config

vars == <<reader, writer, pc, success, interval, fake, conns, hist, fails, slept,
          file, config>>

(* ----------------------------- bounds ---------------------------------- *)
\* number of events of the trace that are remembered (sliding window)
MaxHist == 8
\* number of events remembered when the methods are called directly
ApiHist == 2
\* number of events remembered when the Transport may recover
RecoverHist == 5
\* the interval given to the constructor is drawn from 1..MaxInterval
\* (tenths of a second)
MaxInterval == 2
\* connection handles the Transport can hand out
NumHandles == 2
\* the count of consecutive failed connects saturates here
MaxFails == 3
\* number of events remembered when the program is started through main()
MainHist == 1

(* --------------------------- basic values ------------------------------ *)
\* self.reader = None / self.writer = None
None == 0

Handles == 1..NumHandles

(* --------------------------- configuration ----------------------------- *)
\* a key the [molbox] section of the file does not set
Unset == <<"unset">>

\* the default configuration of load_config(); the interval is counted in
\* tenths of a second (2.0 s)
DefaultHost == <<"l", "o", "c", "a", "l", "h", "o", "s", "t">>
DefaultPort == 23
DefaultInterval == 20
DefaultCommand == <<"A", "L", "L", "R">>
DefaultTimeout == 10

Keys == {"host", "port", "interval", "command", "timeout"}

Defaults ==
    [host |-> DefaultHost, port |-> DefaultPort, interval |-> DefaultInterval,
     command |-> DefaultCommand, timeout |-> DefaultTimeout]

\* the text a file can give to each key: well-formed values, and for the
\* numeric keys a text int() or float() rejects
HostRaws == {Unset, <<"h", "1">>}
PortRaws == {Unset, <<"8", "0">>, <<"x">>}
IntervalRaws == {Unset, <<"0", ".", "5">>, <<"a">>}
CommandRaws == {Unset, <<"X">>}
TimeoutRaws == {Unset, <<"3">>, <<"1", ".", "5">>}

\* ~/.molbox_tester: absent, not parseable by ConfigParser (text before any
\* section header), without a [molbox] section, or with one that sets any
\* subset of the keys
NoKeys ==
    [host |-> Unset, port |-> Unset, interval |-> Unset, command |-> Unset,
     timeout |-> Unset]

FileOf(kind, keys) ==
    [kind |-> kind, host |-> keys.host, port |-> keys.port,
     interval |-> keys.interval, command |-> keys.command,
     timeout |-> keys.timeout]

Files ==
    {FileOf(k, NoKeys) : k \in {"absent", "malformed", "no_section"}}
    \cup {FileOf("section", ks) :
            ks \in [host : HostRaws, port : PortRaws, interval : IntervalRaws,
                    command : CommandRaws, timeout : TimeoutRaws]}

Digits == {"0", "1", "2", "3", "4", "5", "6", "7", "8", "9"}

Digit(c) ==
    CASE c = "0" -> 0 [] c = "1" -> 1 [] c = "2" -> 2 [] c = "3" -> 3
      [] c = "4" -> 4 [] c = "5" -> 5 [] c = "6" -> 6 [] c = "7" -> 7
      [] c = "8" -> 8 [] c = "9" -> 9

IsDigits(s) == \A i \in 1..Len(s) : s[i] \in Digits

RECURSIVE DigitsValue(_)
DigitsValue(s) ==
    IF s = <<>> THEN 0
    ELSE DigitsValue(SubSeq(s, 1, Len(s) - 1)) * 10 + Digit(s[Len(s)])

\* int(text): the value of a run of decimal digits, ValueError otherwise
\* (signs, blanks and underscores are not among the texts drawn)
ParseInt(s) ==
    IF s # <<>> /\ IsDigits(s)
    THEN [ok |-> TRUE, v |-> DigitsValue(s)]
    ELSE [ok |-> FALSE, v |-> 0]

\* float(text), in tenths: digits, optionally a point and digits, at
\* least one digit in all; ValueError otherwise.  The fraction counts to
\* its first digit, the resolution of the model.
ParseFloat(s) ==
    LET dots == {i \in 1..Len(s) : s[i] = "."}
        p == CHOOSE i \in dots : TRUE
        whole == SubSeq(s, 1, p - 1)
        frac == SubSeq(s, p + 1, Len(s))
    IN  IF dots = {} THEN
            IF ParseInt(s).ok THEN [ok |-> TRUE, v |-> ParseInt(s).v * 10]
            ELSE [ok |-> FALSE, v |-> 0]
        ELSE IF Cardinality(dots) = 1 /\ IsDigits(whole) /\ IsDigits(frac)
                /\ Len(whole) + Len(frac) > 0
        THEN [ok |-> TRUE,
              v |-> DigitsValue(whole) * 10
                    + (IF frac = <<>> THEN 0 ELSE Digit(frac[1]))]
        ELSE [ok |-> FALSE, v |-> 0]

\* section.get(key, fallback)
SectionGet(f, key, fallback) == IF f[key] = Unset THEN fallback ELSE f[key]

\* the assignments from the [molbox] section with the timeout read from
\* the key 'port'
ReadSectionTimeoutFromPort(f) ==
    LET port == IF f.port = Unset THEN [ok |-> TRUE, v |-> Defaults.port]
                ELSE ParseInt(f.port)
        ival == IF f.interval = Unset THEN [ok |-> TRUE, v |-> Defaults.interval]
                ELSE ParseFloat(f.interval)
    IN  [exc |-> IF port.ok /\ ival.ok THEN "none" ELSE "ValueError",
         config |-> [host |-> SectionGet(f, "host", Defaults.host),
                     port |-> port.v,
                     interval |-> ival.v,
                     command |-> SectionGet(f, "command", Defaults.command),
                     timeout |-> port.v]]

\* the assignments from the [molbox] section: every key is read on its own,
\* with the default as its fallback; int() and float() of a default return
\* the default
ReadSection(f) ==
    LET port == IF f.port = Unset THEN [ok |-> TRUE, v |-> Defaults.port]
                ELSE ParseInt(f.port)
        ival == IF f.interval = Unset THEN [ok |-> TRUE, v |-> Defaults.interval]
                ELSE ParseFloat(f.interval)
        tout == IF f.timeout = Unset THEN [ok |-> TRUE, v |-> Defaults.timeout]
                ELSE ParseInt(f.timeout)
    IN  [exc |-> IF port.ok /\ ival.ok /\ tout.ok THEN "none" ELSE "ValueError",
         config |-> [host |-> SectionGet(f, "host", Defaults.host),
                     port |-> port.v,
                     interval |-> ival.v,
                     command |-> SectionGet(f, "command", Defaults.command),
                     timeout |-> tout.v]]

\* load_config() with the timeout defaulting to 5
load_configShortTimeout(f) ==
    LET short == [Defaults EXCEPT !.timeout = 5]
    IN  IF f.kind = "absent" THEN [exc |-> "none", config |-> short]
        ELSE IF f.kind = "malformed"
        THEN [exc |-> "MissingSectionHeaderError", config |-> short]
        ELSE IF f.kind = "no_section" THEN [exc |-> "none", config |-> short]
        ELSE ReadSection(f)

\* load_config(): the exception it raises ("none" when it returns) and the
\* dictionary it returns
load_config(f) ==
    IF f.kind = "absent" THEN [exc |-> "none", config |-> Defaults]
    ELSE IF f.kind = "malformed"
    THEN [exc |-> "MissingSectionHeaderError", config |-> Defaults]
    ELSE IF f.kind = "no_section" THEN [exc |-> "none", config |-> Defaults]
    ELSE ReadSection(f)

\* the arguments of MolboxTester(...): st tells where they come from, the
\* caller ("args") or load_config() ("loaded"; "unloaded" before the call)
Config(st, c) ==
    [status |-> st, host |-> c.host, port |-> c.port, interval |-> c.interval,
     command |-> c.command, timeout |-> c.timeout]

\* self.command
command == config.command

\* characters removed by str.strip()
Whitespace == {"SP", "CR", "LF", "TAB"}

\* lines a Transport can deliver: a reply and a blank line
Lines == {<<"O", "K", "CR", "LF">>, <<"LF">>}

\* the line the fixed-line fake Transport returns
FixedLine == <<"SP", "O", "K", "CR", "LF">>

\* what reader.readline() returns at end of stream
EofData == <<>>

\* the Transports: arbitrary outcomes, or one of the two fakes
Fakes == {"Arbitrary", "FixedLine", "ReceiveTimeout"}

\* a Transport with arbitrary outcomes that may recover at any moment, and
\* the same Transport once it has recovered: it accepts every connect and
\* answers every command with a line
Flaky == "Flaky"
Recovered == "Recovered"

\* a Transport that, besides any other outcome, may stop responding during
\* a write/drain or a close
Stalling == "Stalling"

\* exception classes a Transport operation can raise (all subclasses of Exception)
ExceptionClasses == {"TimeoutError", "IncompleteReadError", "ConnectionRefusedError",
                     "ConnectionResetError", "OSError", "AttributeError"}

IsException(e) == e \in ExceptionClasses

(* ------------------------- transport outcomes -------------------------- *)
Ok(h, d) == [k |-> "ok", h |-> h, d |-> d, e |-> "none"]
Raise(e) == [k |-> "raise", h |-> None, d |-> <<>>, e |-> e]
Never == [k |-> "never", h |-> None, d |-> <<>>, e |-> "none"]

\* telnetlib3.open_connection(host, port)
OpenOutcomes ==
    {Ok(h, <<>>) : h \in Handles \ conns}
    \cup (IF fake \in {"Arbitrary", "Stalling", "Flaky"}
          THEN {Never, Raise("ConnectionRefusedError"), Raise("OSError")}
          ELSE {})

\* writer.write(command_str); await writer.drain()
WriteOutcomes ==
    {Ok(None, <<>>)}
    \cup (IF fake \in {"FixedLine", "Recovered"}
          THEN {}
          ELSE {Raise("ConnectionResetError"), Raise("OSError")})
    \cup (IF fake = "Stalling" THEN {Never} ELSE {})

\* reader.readline()
ReadOutcomes ==
    CASE fake = "FixedLine" -> {Ok(None, FixedLine)}
      [] fake = "ReceiveTimeout" -> {Never}
      [] fake = "Recovered" -> {Ok(None, l) : l \in Lines}
      [] OTHER -> {Ok(None, l) : l \in Lines} \cup {Ok(None, EofData), Never,
                   Raise("IncompleteReadError"), Raise("ConnectionResetError")}

\* writer.close(); await writer.wait_closed()
CloseOutcomes ==
    {Ok(None, <<>>), Raise("OSError")}
    \cup (IF fake = "Stalling" THEN {Never} ELSE {})

\* an await without asyncio.wait_for around it
WaitForNoTimeout(o) == o

\* asyncio.wait_for(aw, timeout): an awaitable that never completes is
\* cancelled when the timeout fires and TimeoutError is raised
WaitFor(o) == IF o.k = "never" THEN Raise("TimeoutError") ELSE o

(* ------------------------------ helpers -------------------------------- *)
RECURSIVE LStrip(_)
LStrip(s) == IF s # <<>> /\ Head(s) \in Whitespace THEN LStrip(Tail(s)) ELSE s

RECURSIVE RStrip(_)
RStrip(s) == IF s # <<>> /\ s[Len(s)] \in Whitespace
             THEN RStrip(SubSeq(s, 1, Len(s) - 1)) ELSE s

\* response.strip()
Strip(s) == RStrip(LStrip(s))

\* an entry of the observable trace, a log line or a completed call:
\* h the handle it used, ret the value returned, n the seconds slept,
\* s the text logged or what the Transport did
Ev(op, h, ret, n, s) == [op |-> op, h |-> h, ret |-> ret, n |-> n, s |-> s]

\* the name of a Transport outcome
OutcomeName(o) == IF o.k = "raise" THEN o.e ELSE o.k

\* the number of trace entries kept
Window ==
    IF pc = "api" THEN ApiHist
    ELSE IF config.status # "args" THEN MainHist
    ELSE IF fake \in {"Flaky", "Recovered"} THEN RecoverHist
    ELSE MaxHist

RECURSIVE Push(_, _)
\* append the events es to the trace h, keeping the last Window entries
Push(h, es) ==
    IF es = <<>> THEN h
    ELSE LET a == Append(h, Head(es))
         IN  Push(IF Len(a) > Window THEN Tail(a) ELSE a, Tail(es))

Last(h) == h[Len(h)]

(* --------------------- MolboxTester.connect ---------------------------- *)
\* connect() without its "except Exception" clause
ConnectCatchesTimeoutOnly(e) == e = "TimeoutError"

\* the except clauses of connect(): asyncio.TimeoutError, then Exception
ConnectCatches(e) == e = "TimeoutError" \/ IsException(e)

\* connect() that returns True without storing the writer it was given
connectDropsWriter(o) ==
    LET r == WaitFor(o)
    IN  IF r.k = "ok"
        THEN [reader |-> r.h, writer |-> writer, ret |-> TRUE, exc |-> "none",
              blocked |-> FALSE]
        ELSE [reader |-> reader, writer |-> writer, ret |-> FALSE, exc |-> "none",
              blocked |-> FALSE]

\* connect() with the Transport answering the open with o:
\* the new reader/writer, the return value, an exception that escapes,
\* and whether the call is left waiting forever
connect(o) ==
    LET r == WaitFor(o)
        same(ret, exc, blocked) ==
            [reader |-> reader, writer |-> writer, ret |-> ret, exc |-> exc,
             blocked |-> blocked]
    IN  IF r.k = "ok"
        THEN [reader |-> r.h, writer |-> r.h, ret |-> TRUE, exc |-> "none",
              blocked |-> FALSE]
        ELSE IF r.k = "never" THEN same(FALSE, "none", TRUE)
        ELSE IF ConnectCatches(r.e) THEN same(FALSE, "none", FALSE)
        ELSE same(FALSE, r.e, FALSE)

(* -------------------- MolboxTester.disconnect -------------------------- *)
\* the except clause of disconnect(): Exception
DisconnectCatches(e) == IsException(e)

\* disconnect() without its finally clause: the fields keep their values
DisconnectKeeps(h) == h

\* the finally clause of disconnect(): reader and writer are cleared
\* whatever the close did
DisconnectFinally(h) == None

\* disconnect() with the Transport answering the close with o:
\* closed tells whether the Transport was asked to close at all
disconnect(o) ==
    IF writer # None /\ o.k = "never"
    THEN [reader |-> reader, writer |-> writer, closed |-> FALSE, exc |-> "none",
          blocked |-> TRUE]
    ELSE IF writer # None
    THEN [reader |-> DisconnectFinally(reader), writer |-> DisconnectFinally(writer),
          closed |-> TRUE,
          exc |-> IF o.k = "raise" /\ ~DisconnectCatches(o.e) THEN o.e ELSE "none",
          blocked |-> FALSE]
    ELSE [reader |-> reader, writer |-> writer, closed |-> FALSE, exc |-> "none",
          blocked |-> FALSE]

(* ------------------- MolboxTester.send_command ------------------------- *)
\* send_command() with only its "except asyncio.IncompleteReadError" clause
SendCatchesIncompleteOnly(e) == e = "IncompleteReadError"

\* the except clauses of send_command(): asyncio.TimeoutError,
\* asyncio.IncompleteReadError, then Exception
SendCatches(e) == e \in {"TimeoutError", "IncompleteReadError"} \/ IsException(e)

\* what the Transport did during one send_command()
IoKind(w, r) ==
    CASE writer = None -> "no_session"
      [] w.k = "raise" -> "write_error"
      [] r.k = "never" -> "timeout"
      [] r.k = "raise" /\ r.e = "IncompleteReadError" -> "remote_closed"
      [] r.k = "raise" -> "io_error"
      [] r.d = EofData -> "eof"
      [] OTHER -> "line"

\* the value send_command() returns once readline() has returned data d
ReadlineResult(d) == TRUE

\* send_command() with the Transport answering the write with w and the
\* readline with r: the lines logged, the return value, an escaping exception
send_command(w, r) ==
    LET wr == IF writer = None THEN Raise("AttributeError") ELSE w
        rd == WaitFor(r)
        sent == Ev("Sent", writer, TRUE, 0, command)
        handled(e, log) ==
            IF SendCatches(e)
            THEN [log |-> log, ret |-> FALSE, exc |-> "none", blocked |-> "no"]
            ELSE [log |-> log, ret |-> FALSE, exc |-> e, blocked |-> "no"]
    IN  IF wr.k = "raise" THEN handled(wr.e, <<>>)
        ELSE IF wr.k = "never"
        THEN [log |-> <<>>, ret |-> FALSE, exc |-> "none", blocked |-> "drain"]
        ELSE IF rd.k = "raise" THEN handled(rd.e, <<sent>>)
        ELSE IF rd.k = "never"
        THEN [log |-> <<sent>>, ret |-> FALSE, exc |-> "none", blocked |-> "readline"]
        ELSE [log |-> <<sent, Ev("Received", writer, TRUE, 0, Strip(rd.d))>>,
              ret |-> ReadlineResult(rd.d), exc |-> "none", blocked |-> "no"]

(* ----------------------- MolboxTester.run ------------------------------ *)
\* a failed first connect that goes on to send all the same
AfterConnectAlwaysSend(ok) == "send"

\* if not await self.connect(): sleep and continue, else go on to send
AfterConnect(ok) == IF ok THEN "send" ELSE "retry_sleep"

\* the test of success inverted
AfterCheckInverted(ok) == IF ok THEN "disconnect" ELSE "sleep"

\* if not success: reconnect, else wait for the next interval
AfterCheck(ok) == IF ok THEN "sleep" ELSE "disconnect"

\* a failed reconnect that goes straight back to the loop head
AfterReconnectNoSleep(ok) == IF ok THEN "sleep" ELSE "loop"

\* if not await self.connect() after a disconnect: sleep and continue,
\* else wait for the next interval
AfterReconnect(ok) == IF ok THEN "sleep" ELSE "reconnect_sleep"

\* a delay that grows with the number of consecutive failed connects
SleepDurationBackoff == interval * (fails + 1)

\* the argument of every asyncio.sleep() of run()
SleepDuration == interval

Min(a, b) == IF a < b THEN a ELSE b

\* one call of connect(): the Transport answers the open with o
DoConnect(o, nextTrue, nextFalse) ==
    LET c == connect(o)
    IN  /\ reader' = c.reader
        /\ writer' = c.writer
        /\ conns' = IF o.k = "ok" THEN conns \cup {o.h} ELSE conns
        /\ hist' = Push(hist, <<IF c.blocked
                                THEN Ev("blocked", None, FALSE, 0, <<"open">>)
                                ELSE Ev("connect", o.h, c.ret, 0, <<OutcomeName(o)>>)>>)
        /\ fails' = IF c.ret THEN 0 ELSE Min(fails + 1, MaxFails)
        /\ pc' = IF c.blocked THEN "blocked"
                 ELSE IF c.exc # "none" THEN "raised"
                 ELSE IF c.ret THEN nextTrue ELSE nextFalse
        /\ UNCHANGED <<success, interval, fake, slept, file, config>>

\* one call of disconnect(): the Transport answers the close with o
DoDisconnect(o, next) ==
    LET d == disconnect(o)
    IN  /\ reader' = d.reader
        /\ writer' = d.writer
        /\ conns' = IF d.closed THEN conns \ {writer} ELSE conns
        /\ hist' = Push(hist, <<IF d.blocked
                                THEN Ev("blocked", writer, FALSE, 0, <<"wait_closed">>)
                                ELSE Ev("disconnect",
                                        IF d.closed THEN writer ELSE None, TRUE, 0,
                                        IF d.closed THEN <<OutcomeName(o)>> ELSE <<>>)>>)
        /\ pc' = IF d.blocked THEN "blocked"
                 ELSE IF d.exc # "none" THEN "raised" ELSE next
        /\ UNCHANGED <<success, interval, fake, fails, slept, file, config>>

\* one call of send_command(): the Transport answers the write with w and
\* the readline with r
DoSendCommand(w, r, next) ==
    LET s == send_command(w, r)
    IN  /\ success' = (IF s.blocked # "no" THEN success ELSE s.ret)
        /\ hist' = Push(hist, s.log \o
                     <<IF s.blocked # "no"
                       THEN Ev("blocked", writer, FALSE, 0, <<s.blocked>>)
                       ELSE Ev("send_command", writer, s.ret, 0, <<IoKind(w, r)>>)>>)
        /\ pc' = IF s.blocked # "no" THEN "blocked"
                 ELSE IF s.exc # "none" THEN "raised" ELSE next
        /\ UNCHANGED <<reader, writer, interval, fake, conns, fails, slept, file, config>>

\* await asyncio.sleep(self.interval)
DoSleep(next) ==
    /\ hist' = Push(hist, <<Ev("sleep", None, TRUE, SleepDuration, <<>>)>>)
    /\ slept' = Min(slept + 1, 2)
    /\ pc' = next
    /\ UNCHANGED <<reader, writer, success, interval, fake, conns, fails, file, config>>

\* while True: if not self.writer
RunLoop ==
    /\ pc = "loop"
    /\ pc' = IF writer = None THEN "connect" ELSE "send"
    /\ slept' = 0
    /\ UNCHANGED <<reader, writer, success, interval, fake, conns, hist, fails, file, config>>

\* if not await self.connect()
RunConnect ==
    /\ pc = "connect"
    /\ \E o \in OpenOutcomes : DoConnect(o, AfterConnect(TRUE), AfterConnect(FALSE))

\* await asyncio.sleep(self.interval); continue  (connection failed)
RunRetrySleep ==
    /\ pc = "retry_sleep"
    /\ DoSleep("loop")

\* success = await self.send_command()
RunSendCommand ==
    /\ pc = "send"
    /\ \E w \in WriteOutcomes, r \in ReadOutcomes : DoSendCommand(w, r, "check")

\* if not success
RunCheck ==
    /\ pc = "check"
    /\ pc' = AfterCheck(success)
    /\ UNCHANGED <<reader, writer, success, interval, fake, conns, hist, fails, slept, file, config>>

\* await self.disconnect()
RunDisconnect ==
    /\ pc = "disconnect"
    /\ \E o \in CloseOutcomes : DoDisconnect(o, "reconnect")

\* if not await self.connect()  (after the disconnect)
RunReconnect ==
    /\ pc = "reconnect"
    /\ \E o \in OpenOutcomes : DoConnect(o, AfterReconnect(TRUE), AfterReconnect(FALSE))

\* await asyncio.sleep(self.interval); continue  (reconnection failed)
RunReconnectSleep ==
    /\ pc = "reconnect_sleep"
    /\ DoSleep("loop")

\* await asyncio.sleep(self.interval)  (wait for next interval)
RunSleep ==
    /\ pc = "sleep"
    /\ DoSleep("loop")

\* MolboxTester.__init__ followed by the entry into run()
Init ==
    /\ reader = None
    /\ writer = None
    /\ pc = "loop"
    /\ success = FALSE
    /\ interval \in 1..MaxInterval
    /\ fake \in Fakes
    /\ conns = {}
    /\ hist = <<>>
    /\ fails = 0
    /\ slept = 0
    /\ file = FileOf("absent", NoKeys)
    /\ config = Config("args", [Defaults EXCEPT !.interval = interval])

Next ==
    \/ RunLoop
    \/ RunConnect
    \/ RunRetrySleep
    \/ RunSendCommand
    \/ RunCheck
    \/ RunDisconnect
    \/ RunReconnect
    \/ RunReconnectSleep
    \/ RunSleep

Spec == Init /\ [][Next]_vars

\* from some point on the Transport accepts every connect and answers every
\* command with a line
Heal ==
    /\ fake = Flaky
    /\ fake' = Recovered
    /\ UNCHANGED <<reader, writer, pc, success, interval, conns, hist, fails, slept, file, config>>

RecoverNext ==
    \/ Next
    \/ Heal

\* run() against a Transport that may recover at any moment; the event loop
\* keeps running the coroutine, the Transport need not recover
RecoverInit ==
    /\ reader = None
    /\ writer = None
    /\ pc = "loop"
    /\ success = FALSE
    /\ interval \in 1..MaxInterval
    /\ fake = Flaky
    /\ conns = {}
    /\ hist = <<>>
    /\ fails = 0
    /\ slept = 0
    /\ file = FileOf("absent", NoKeys)
    /\ config = Config("args", [Defaults EXCEPT !.interval = interval])

RecoverSpec == RecoverInit /\ [][RecoverNext]_vars /\ WF_vars(Next)

\* run() against a Transport that may stop responding at any step
HangInit ==
    /\ reader = None
    /\ writer = None
    /\ pc = "loop"
    /\ success = FALSE
    /\ interval \in 1..MaxInterval
    /\ fake = Stalling
    /\ conns = {}
    /\ hist = <<>>
    /\ fails = 0
    /\ slept = 0
    /\ file = FileOf("absent", NoKeys)
    /\ config = Config("args", [Defaults EXCEPT !.interval = interval])

HangSpec == HangInit /\ [][Next]_vars

(* --------- the methods called directly, in any order, by a client ------- *)
\* a client that is not run() stays where it is after each call
ApiReturn(ok) == "api"

\* tester.connect()
ApiConnect ==
    /\ pc = "api"
    /\ \E o \in OpenOutcomes : DoConnect(o, ApiReturn(TRUE), ApiReturn(FALSE))

\* tester.disconnect()
ApiDisconnect ==
    /\ pc = "api"
    /\ \E o \in CloseOutcomes : DoDisconnect(o, "api")

\* tester.send_command()
ApiSendCommand ==
    /\ pc = "api"
    /\ \E w \in WriteOutcomes, r \in ReadOutcomes : DoSendCommand(w, r, "api")

\* MolboxTester.__init__
ApiInit ==
    /\ reader = None
    /\ writer = None
    /\ pc = "api"
    /\ success = FALSE
    /\ interval \in 1..MaxInterval
    /\ fake \in Fakes
    /\ conns = {}
    /\ hist = <<>>
    /\ fails = 0
    /\ slept = 0
    /\ file = FileOf("absent", NoKeys)
    /\ config = Config("args", [Defaults EXCEPT !.interval = interval])

ApiNext ==
    \/ ApiConnect
    \/ ApiDisconnect
    \/ ApiSendCommand

ApiSpec == ApiInit /\ [][ApiNext]_vars

(* ------------------------------- main ---------------------------------- *)
\* sys.exit(0) for KeyboardInterrupt, sys.exit(1) for any other exception
ExitCode(e) == IF e = "KeyboardInterrupt" THEN 0 ELSE 1

\* config = load_config(); tester = MolboxTester(...); await tester.run()
MainLoadConfig ==
    /\ pc = "main"
    /\ LET l == load_config(file)
       IN  IF l.exc = "none"
           THEN /\ config' = Config("loaded", l.config)
                /\ interval' = l.config.interval
                /\ pc' = "loop"
                /\ hist' = hist
           ELSE /\ config' = config
                /\ interval' = interval
                /\ pc' = "unhandled"
                /\ hist' = Push(hist, <<Ev("raise", None, FALSE, 0, <<l.exc>>)>>)
    /\ UNCHANGED <<reader, writer, success, fake, conns, fails, slept, file>>

\* except Exception as e: sys.exit(1), for an exception that left
\* load_config() or run()
MainExcept ==
    /\ pc \in {"unhandled", "raised"}
    /\ pc' = "exited"
    /\ hist' = Push(hist, <<Ev("exit", None, FALSE, ExitCode("Exception"),
                              <<IF pc = "unhandled" THEN "load_config" ELSE "run">>)>>)
    /\ UNCHANGED <<reader, writer, success, interval, fake, conns, fails, slept,
                   file, config>>

\* the user interrupts the program: asyncio.run() cancels the coroutine
\* where it is and raises KeyboardInterrupt; except KeyboardInterrupt:
\* sys.exit(0)
MainInterrupt ==
    /\ pc \notin {"unhandled", "raised", "exited", "blocked", "api"}
    /\ pc' = "exited"
    /\ hist' = Push(hist, <<Ev("exit", None, FALSE, ExitCode("KeyboardInterrupt"),
                              <<"KeyboardInterrupt">>)>>)
    /\ UNCHANGED <<reader, writer, success, interval, fake, conns, fails, slept,
                   file, config>>

\* the process is started: nothing is loaded yet, the file is whatever the
\* user has put there
MainInit ==
    /\ reader = None
    /\ writer = None
    /\ pc = "main"
    /\ success = FALSE
    /\ interval = DefaultInterval
    /\ fake = "Arbitrary"
    /\ conns = {}
    /\ hist = <<>>
    /\ fails = 0
    /\ slept = 0
    /\ file \in Files
    /\ config = Config("unloaded", Defaults)

MainNext ==
    \/ MainLoadConfig
    \/ Next
    \/ MainExcept
    \/ MainInterrupt

MainSpec == MainInit /\ [][MainNext]_vars

\* MolboxTester.__init__ with the shortest interval: the interval is only
\* ever passed to asyncio.sleep and takes no part in the control flow
FairInit == Init /\ interval = 1

\* the event loop keeps running the coroutine: every await of run() that
\* can complete does complete
FairSpec == FairInit /\ [][Next]_vars /\ WF_vars(Next)

TypeOK ==
    /\ reader \in Handles \cup {None}
    /\ writer \in Handles \cup {None}
    /\ pc \in {"loop", "connect", "retry_sleep", "send", "check", "disconnect",
               "reconnect", "reconnect_sleep", "sleep", "raised", "api", "blocked",
               "main", "unhandled", "exited"}
    /\ success \in BOOLEAN
    /\ interval \in (1..MaxInterval) \cup {DefaultInterval, 5}
    /\ fake \in Fakes \cup {Stalling, Flaky, Recovered}
    /\ file \in Files
    /\ config.status \in {"args", "unloaded", "loaded"}
    /\ config.interval = interval
    /\ conns \subseteq Handles
    /\ Len(hist) <= MaxHist
    /\ fails \in 0..MaxFails
    /\ slept \in 0..2

(* ------------------------------ claims --------------------------------- *)
\* C1: after send_command() returns failure, whatever the failure kind,
\* run() calls disconnect() (the Session is absent afterwards), then
\* connect() exactly once, and the next thing it does is sleep: there is
\* no second connect() before that sleep, whether the reconnect succeeded
\* or failed.
C1_FailureThenOneReconnect ==
    \A i \in 1..Len(hist) :
        (hist[i].op = "send_command" /\ ~hist[i].ret) =>
            /\ i = Len(hist) => pc \in {"check", "disconnect"}
            /\ i + 1 <= Len(hist) => hist[i + 1].op = "disconnect"
            /\ i + 1 = Len(hist) => pc = "reconnect" /\ writer = None /\ reader = None
            /\ i + 2 <= Len(hist) => hist[i + 2].op = "connect"
            /\ i + 2 = Len(hist) =>
                   pc = (IF hist[i + 2].ret THEN "sleep" ELSE "reconnect_sleep")
            /\ i + 3 <= Len(hist) => hist[i + 3].op = "sleep"

\* a write error was followed by disconnect, one failed reconnect and a
\* sleep, and a receive timeout by disconnect, one successful reconnect
\* and a sleep
C1_Witness ==
    /\ \E i \in 1..Len(hist) :
           /\ i + 3 <= Len(hist)
           /\ hist[i].op = "send_command" /\ hist[i].s = <<"write_error">>
           /\ hist[i + 2].op = "connect" /\ ~hist[i + 2].ret
           /\ hist[i + 3].op = "sleep"
    /\ \E i \in 1..Len(hist) :
           /\ i + 3 <= Len(hist)
           /\ hist[i].op = "send_command" /\ hist[i].s = <<"timeout">>
           /\ hist[i + 2].op = "connect" /\ hist[i + 2].ret
           /\ hist[i + 3].op = "sleep"

\* C2: send_command() returns success if and only if a line was read from
\* the Transport: failure on receive timeout, on remote close (reported as
\* an error or as an end-of-stream empty read), on a write error and on
\* any other I/O error.
C2_SuccessIffLineRead ==
    pc = "check" => (success <=> Last(hist).s = <<"line">>)

\* C3: run() never terminates on its own: no Transport outcome leaves it in
\* a terminal or stuck state and no Transport failure escapes it as an
\* exception.
C3_RunNeverTerminates ==
    pc # "raised" /\ ENABLED Next

\* run() is still going after a refused connect, a failed send and a close
\* that raised
C3_Witness ==
    /\ pc = "reconnect"
    /\ Last(hist).op = "disconnect" /\ Last(hist).s = <<"OSError">>
    /\ \E i \in 1..Len(hist) :
           hist[i].op = "connect" /\ hist[i].s = <<"ConnectionRefusedError">>
    /\ \E i \in 1..Len(hist) :
           hist[i].op = "send_command" /\ hist[i].s = <<"io_error">>

\* C4: with a Transport whose connect and write always succeed and whose
\* readline always returns a fixed line, every cycle of run() logs
\* "Sent: <command>" and then "Received: <the trimmed line>", once each, and
\* between the "Received" of one cycle and the "Sent" of the next there is
\* exactly one sleep(interval) and no connect() or disconnect().
C4_FixedLineCycle ==
    fake = "FixedLine" =>
        \A i \in 1..Len(hist) :
            /\ hist[i].op # "disconnect"
            /\ hist[i].op = "connect" => i = 1 /\ hist[i].ret
            /\ hist[i].op = "Sent" =>
                   /\ hist[i].s = command
                   /\ i + 1 <= Len(hist)
                   /\ hist[i + 1].op = "Received"
                   /\ hist[i + 1].s = <<"O", "K">>
            /\ hist[i].op = "Received" =>
                   /\ i + 1 <= Len(hist)
                   /\ hist[i + 1].op = "send_command" /\ hist[i + 1].ret
                   /\ i + 2 <= Len(hist) =>
                          hist[i + 2].op = "sleep" /\ hist[i + 2].n = interval
                   /\ i + 3 <= Len(hist) => hist[i + 3].op = "Sent"
            /\ (hist[i].op = "send_command" /\ i >= 3) =>
                   hist[i - 1].op = "Received" /\ hist[i - 2].op = "Sent"
            /\ (hist[i].op = "sleep" /\ i = Len(hist)) =>
                   pc \in {"loop", "send"} /\ writer # None

\* two full cycles against the fixed-line Transport
C4_Witness ==
    /\ fake = "FixedLine"
    /\ Len(hist) = MaxHist
    /\ \E i \in 1..Len(hist) :
           /\ i + 4 <= Len(hist)
           /\ hist[i].op = "Sent" /\ hist[i + 1].op = "Received"
           /\ hist[i + 3].op = "sleep"
           /\ hist[i + 4].op = "Sent"

\* what the trace shows of a Transport whose readline always times out:
\* every send_command fails and is followed by disconnect, a successful
\* connect and a sleep, in that order, and after the sleep comes the next
\* send_command
C5_Order ==
    /\ pc # "raised"
    /\ pc = "send" => writer # None /\ writer \in conns
    /\ \A i \in 1..Len(hist) :
           /\ hist[i].op = "send_command" =>
                  /\ ~hist[i].ret /\ hist[i].h # None
                  /\ i + 1 <= Len(hist) =>
                         hist[i + 1].op = "disconnect" /\ hist[i + 1].h = hist[i].h
                  /\ i + 2 <= Len(hist) =>
                         hist[i + 2].op = "connect" /\ hist[i + 2].ret
                  /\ i + 3 <= Len(hist) => hist[i + 3].op = "sleep"
           /\ (hist[i].op = "sleep" /\ i + 1 <= Len(hist)) =>
                  hist[i + 1].op \in {"Sent", "send_command"}
           /\ hist[i].op # "Received"

\* C5: with a Transport whose connect always succeeds and whose readline
\* always times out, run() keeps cycling forever: every iteration performs
\* send_command (failure), disconnect, connect (success), sleep in that
\* order, the Poller is Connected at the start of every send_command, and
\* run() never stops or raises.
C5_TimeoutFakeCycles ==
    /\ [](fake = "ReceiveTimeout" => C5_Order)
    /\ []<>(fake = "ReceiveTimeout" => pc = "send")
    /\ []<>(fake = "ReceiveTimeout" => pc = "disconnect")
    /\ []<>(fake = "ReceiveTimeout" => pc = "sleep")

\* two failing cycles against the Transport whose readline times out
C5_Witness ==
    /\ fake = "ReceiveTimeout"
    /\ pc = "loop"
    /\ Len(hist) = MaxHist
    /\ \E i \in 1..Len(hist) :
           /\ i + 3 <= Len(hist)
           /\ hist[i].op = "send_command" /\ hist[i].s = <<"timeout">>
           /\ hist[i + 1].op = "disconnect"
           /\ hist[i + 2].op = "connect" /\ hist[i + 2].ret
           /\ hist[i + 3].op = "sleep"
           /\ i + 3 = Len(hist)

\* C6: the backoff is fixed and unlimited: after the k-th consecutive
\* failed connect(), for every k, run() sleeps exactly the configured
\* interval and then attempts connect() again, and it can always go on.
C6_FixedBackoff ==
    /\ fails > 0 => ENABLED Next
    /\ \A i \in 1..Len(hist) :
           (hist[i].op = "connect" /\ ~hist[i].ret) =>
               /\ i = Len(hist) =>
                      pc \in {"retry_sleep", "reconnect_sleep"} /\ fails > 0
               /\ i + 1 <= Len(hist) =>
                      hist[i + 1].op = "sleep" /\ hist[i + 1].n = interval
               /\ i + 1 = Len(hist) => pc \in {"loop", "connect"} /\ writer = None
               /\ i + 2 <= Len(hist) => hist[i + 2].op = "connect"

\* MaxFails connects failed in a row, each followed by the same sleep
C6_Witness ==
    /\ fails = MaxFails
    /\ pc = "connect"
    /\ Len(hist) >= 2 * MaxFails
    /\ \A j \in 0..(MaxFails - 1) :
           /\ hist[Len(hist) - 2 * j].op = "sleep"
           /\ hist[Len(hist) - 2 * j].n = interval
           /\ hist[Len(hist) - 2 * j - 1].op = "connect"
           /\ ~hist[Len(hist) - 2 * j - 1].ret

\* C7: the Session follows the two-state machine: it goes from absent to
\* present only by a connect() that returns success, from present to absent
\* only through the disconnect() that follows a send/receive failure, a
\* present Session is never exchanged for another, and it stays present
\* across a successful send_command() and the interval sleep.
C7_SessionStateMachine ==
    [][/\ (writer = None /\ writer' # None) =>
              /\ pc \in {"connect", "reconnect"}
              /\ Last(hist').op = "connect" /\ Last(hist').ret
              /\ writer' = Last(hist').h
       /\ (writer # None /\ writer' = None) =>
              /\ pc = "disconnect" /\ ~success
              /\ Last(hist).op = "send_command" /\ ~Last(hist).ret
       /\ (writer # None /\ writer' # None) => writer' = writer
       /\ (pc \in {"send", "sleep"} \/ (pc = "check" /\ success)) =>
              writer' = writer /\ reader' = reader
       /\ (reader' = None) <=> (writer' = None)
      ]_vars

\* a Session was lost to a send failure, a new one was made by a successful
\* connect, and it was still there after a successful send and the sleep
C7_Witness ==
    /\ writer # None /\ pc = "loop"
    /\ \E i \in 1..Len(hist) :
           /\ i + 6 = Len(hist)
           /\ hist[i].op = "disconnect" /\ hist[i].h # None
           /\ hist[i + 1].op = "connect" /\ hist[i + 1].ret
           /\ hist[i + 5].op = "send_command" /\ hist[i + 5].ret
           /\ hist[i + 5].h = hist[i + 1].h
           /\ hist[i + 6].op = "sleep"
           /\ writer = hist[i + 1].h

\* C8: disconnect() is idempotent and always clears the Session: after it
\* returns reader and writer are both None whether or not the close raised,
\* and a disconnect() of an absent Session (a second disconnect) performs no
\* Transport operation and leaves the state unchanged.
C8_DisconnectIdempotent ==
    [][(hist' # hist /\ Last(hist').op = "disconnect") =>
           /\ writer' = None /\ reader' = None
           /\ writer = None =>
                  /\ Last(hist').h = None /\ Last(hist').s = <<>>
                  /\ UNCHANGED <<reader, writer, conns, success, pc, file, config>>
           /\ writer # None =>
                  /\ Last(hist').h = writer
                  /\ conns' = conns \ {writer}
      ]_vars

\* a disconnect whose close raised, followed by a second disconnect
C8_Witness ==
    /\ pc = "api"
    /\ Len(hist) >= 2
    /\ hist[Len(hist) - 1].op = "disconnect"
    /\ hist[Len(hist) - 1].h # None
    /\ hist[Len(hist) - 1].s = <<"OSError">>
    /\ Last(hist).op = "disconnect" /\ Last(hist).h = None
    /\ writer = None /\ reader = None

\* C9: whenever connect() returns failure (timeout, refusal or any other
\* connect error) the Session is absent afterwards; whenever it returns
\* success the Session is present.
C9_ConnectResultMatchesSession ==
    (hist # <<>> /\ Last(hist).op = "connect") =>
        IF Last(hist).ret
        THEN writer # None /\ reader # None /\ writer = Last(hist).h
        ELSE writer = None /\ reader = None

\* a connect that timed out after one that was refused and one that succeeded
C9_Witness ==
    /\ hist # <<>>
    /\ Last(hist).op = "connect" /\ Last(hist).s = <<"never">> /\ ~Last(hist).ret
    /\ writer = None
    /\ \E i \in 1..Len(hist) :
           hist[i].op = "connect" /\ hist[i].s = <<"ConnectionRefusedError">>
    /\ \E i \in 1..Len(hist) : hist[i].op = "connect" /\ hist[i].ret

\* C10 as stated: at the moment send_command() returns failure the Session
\* is already absent.
C10_AbsentWhenSendFails ==
    (pc = "check" /\ ~success) => writer = None

\* C10 as amended: when send_command() returns failure the Session is still
\* held; it is destroyed by the disconnect() that run() performs as its next
\* operation, on that same handle, before any connect, send or sleep.
C10_FailedSessionClosedNext ==
    \A i \in 1..Len(hist) :
        /\ (hist[i].op = "send_command" /\ ~hist[i].ret) =>
               /\ hist[i].h # None
               /\ i = Len(hist) =>
                      /\ writer = hist[i].h /\ reader = hist[i].h
                      /\ pc \in {"check", "disconnect"}
               /\ i + 1 <= Len(hist) =>
                      hist[i + 1].op = "disconnect" /\ hist[i + 1].h = hist[i].h
        /\ (hist[i].op = "disconnect" /\ i = Len(hist)) =>
               /\ writer = None /\ reader = None
               /\ hist[i].h \notin conns

\* a Session on which the receive timed out has just been closed
C10_Witness ==
    /\ Len(hist) >= 2
    /\ pc = "reconnect"
    /\ hist[Len(hist) - 1].op = "send_command"
    /\ hist[Len(hist) - 1].s = <<"timeout">>
    /\ Last(hist).op = "disconnect" /\ Last(hist).h = hist[Len(hist) - 1].h
    /\ writer = None

\* C14: every iteration of the run() loop performs exactly one
\* sleep(interval) whatever its outcome: when run() is back at the head of
\* the loop the iteration it finished slept once, and no iteration ever
\* sleeps twice.
C14_OneSleepPerIteration ==
    /\ slept <= 1
    /\ (pc = "loop" /\ hist # <<>>) => slept = 1 /\ Last(hist).op = "sleep"
    /\ pc \in {"connect", "send", "check", "disconnect", "reconnect",
               "retry_sleep", "reconnect_sleep", "sleep"} => slept = 0

\* back at the loop head after an iteration whose send and reconnect both
\* failed, which followed an iteration whose first connect failed
C14_Witness ==
    /\ pc = "loop" /\ slept = 1
    /\ \E i \in 1..Len(hist) :
           /\ i + 6 = Len(hist)
           /\ hist[i].op = "connect" /\ ~hist[i].ret
           /\ hist[i + 1].op = "sleep"
           /\ hist[i + 2].op = "connect" /\ hist[i + 2].ret
           /\ hist[i + 3].op = "send_command" /\ ~hist[i + 3].ret
           /\ hist[i + 4].op = "disconnect"
           /\ hist[i + 5].op = "connect" /\ ~hist[i + 5].ret
           /\ hist[i + 6].op = "sleep"

\* C16: connect and receive are bounded by the timeout: when the Transport
\* never completes an open, connect() returns failure, and when it never
\* delivers a line, send_command() returns failure, neither waiting
\* forever; run() then proceeds to its sleep, respectively to its
\* disconnect and reconnect.
C16_TimeoutBoundsConnectAndReceive ==
    /\ pc # "blocked"
    /\ \A i \in 1..Len(hist) :
           /\ hist[i].op # "blocked"
           /\ (hist[i].op = "connect" /\ hist[i].s = <<"never">>) =>
                  /\ ~hist[i].ret
                  /\ i = Len(hist) =>
                         pc \in {"retry_sleep", "reconnect_sleep"} /\ writer = None
                  /\ i + 1 <= Len(hist) => hist[i + 1].op = "sleep"
           /\ (hist[i].op = "send_command" /\ hist[i].s = <<"timeout">>) =>
                  /\ ~hist[i].ret
                  /\ i = Len(hist) => pc \in {"check", "disconnect"} /\ ~success
                  /\ i + 1 <= Len(hist) => hist[i + 1].op = "disconnect"
                  /\ i + 2 <= Len(hist) => hist[i + 2].op = "connect"

\* a receive that never delivered a line was followed by the disconnect and
\* by an open that never completed, after which run() slept
C16_Witness ==
    /\ pc = "loop"
    /\ \E i \in 1..Len(hist) :
           /\ i + 3 = Len(hist)
           /\ hist[i].op = "send_command" /\ hist[i].s = <<"timeout">>
           /\ hist[i + 1].op = "disconnect"
           /\ hist[i + 2].op = "connect" /\ hist[i + 2].s = <<"never">>
           /\ hist[i + 3].op = "sleep"

\* C17 as stated: every Poller operation eventually returns even against a
\* Transport that stops responding at any step, so run() is never blocked
\* forever inside a single operation.
C17_EveryOperationReturns ==
    pc # "blocked"

\* C17 as amended: against a Transport that stops responding, connect() and
\* the read of send_command() still return (the timeout bounds them); the
\* write/drain of send_command() and the wait_closed of disconnect() have
\* no bound, and they are the only places where run() can be blocked
\* forever; a blocked disconnect() keeps the Session.
C17_OnlyDrainAndCloseBlock ==
    /\ pc # "blocked" => ENABLED Next
    /\ pc = "blocked" =>
           /\ Last(hist).op = "blocked"
           /\ Last(hist).s \in {<<"drain">>, <<"wait_closed">>}
           /\ Last(hist).h = writer /\ writer # None
    /\ \A i \in 1..Len(hist) :
           /\ hist[i].op = "blocked" => i = Len(hist) /\ pc = "blocked"
           /\ (hist[i].op = "connect" /\ hist[i].s = <<"never">>) => ~hist[i].ret
           /\ (hist[i].op = "send_command" /\ hist[i].s = <<"timeout">>) => ~hist[i].ret

\* run() is blocked in the wait_closed of a disconnect, after an open and a
\* receive that never completed had each returned failure
C17_Witness ==
    /\ pc = "blocked"
    /\ Last(hist).s = <<"wait_closed">>
    /\ \E i \in 1..Len(hist) : hist[i].op = "connect" /\ hist[i].s = <<"never">>
    /\ \E i \in 1..Len(hist) : hist[i].op = "send_command" /\ hist[i].s = <<"timeout">>

\* C18: run() calls connect() only when the Session is absent: a connect()
\* is preceded by the initial state, by a failed connect() and its sleep, or
\* by a disconnect(); a held handle is never overwritten and the Poller
\* never holds more than one Session.
C18_ConnectOnlyWhenAbsent ==
    /\ pc \in {"connect", "reconnect"} => writer = None /\ reader = None /\ conns = {}
    /\ conns = {writer} \ {None}
    /\ reader = writer
    /\ \A i \in 1..Len(hist) :
           (hist[i].op = "connect" /\ i > 1) =>
               \/ hist[i - 1].op = "disconnect"
               \/ /\ hist[i - 1].op = "sleep"
                  /\ i > 2 => hist[i - 2].op = "connect" /\ ~hist[i - 2].ret

\* a connect after a disconnect and a connect after a failed connect
C18_Witness ==
    /\ pc = "send" /\ writer # None
    /\ \E i \in 1..Len(hist) :
           /\ i + 3 = Len(hist)
           /\ hist[i].op = "disconnect" /\ hist[i].h # None
           /\ hist[i + 1].op = "connect" /\ ~hist[i + 1].ret
           /\ hist[i + 2].op = "sleep"
           /\ hist[i + 3].op = "connect" /\ hist[i + 3].ret

\* C19: run() calls send_command() only when a Session is present: when
\* send_command() starts, the most recent connect() returned success and no
\* disconnect() has happened since; no command is sent in an iteration whose
\* connect() failed, and a Session on which a send or receive failed is
\* never used for a later write or read.
C19_SendOnlyWhenPresent ==
    /\ pc = "send" =>
           /\ writer # None /\ reader = writer /\ writer \in conns
           /\ \A i \in 1..Len(hist) :
                  (hist[i].op \in {"connect", "disconnect"}
                   /\ \A j \in (i + 1)..Len(hist) :
                          hist[j].op \notin {"connect", "disconnect"}) =>
                      hist[i].op = "connect" /\ hist[i].ret /\ hist[i].h = writer
    /\ \A i \in 1..Len(hist) :
           /\ hist[i].op \in {"Sent", "send_command"} =>
                  hist[i].h # None /\ hist[i].s # <<"no_session">>
           /\ (hist[i].op = "connect" /\ ~hist[i].ret /\ i + 1 <= Len(hist)) =>
                  hist[i + 1].op \notin {"Sent", "send_command"}
           /\ (hist[i].op = "send_command" /\ ~hist[i].ret) =>
                  \A j \in (i + 1)..Len(hist) :
                      hist[j].op \in {"Sent", "send_command"} =>
                          \E k \in (i + 1)..(j - 1) :
                              hist[k].op = "connect" /\ hist[k].ret

\* about to send on a Session made after a failed send and a failed connect
C19_Witness ==
    /\ pc = "send"
    /\ \E i \in 1..Len(hist) :
           /\ i + 4 = Len(hist)
           /\ hist[i].op = "send_command" /\ ~hist[i].ret
           /\ hist[i + 1].op = "disconnect"
           /\ hist[i + 2].op = "connect" /\ ~hist[i + 2].ret
           /\ hist[i + 3].op = "sleep"
           /\ hist[i + 4].op = "connect" /\ hist[i + 4].ret
           /\ writer = hist[i + 4].h

\* C15: recovery: if from some point on the Transport accepts every connect
\* and answers every command with a line, then from any reachable state of
\* run() the Poller eventually becomes Connected and stays so, with no
\* further disconnect or reconnect, and completes successful exchanges
\* infinitely often.
C15_Recovery ==
    \/ [](fake # Recovered)
    \/ /\ <>[](writer # None /\ pc \in {"loop", "send", "check", "sleep"})
       /\ []<>(pc = "check" /\ success /\ Last(hist).op = "send_command"
               /\ Last(hist).s = <<"line">>)

\* after a failed connect and its sleep the Transport has recovered, a
\* connect succeeded and an exchange succeeded
C15_Witness ==
    /\ fake = Recovered
    /\ pc = "check" /\ success
    /\ Len(hist) >= 5
    /\ Last(hist).op = "send_command" /\ Last(hist).ret
    /\ hist[Len(hist) - 3].op = "connect" /\ hist[Len(hist) - 3].ret
    /\ hist[Len(hist) - 4].op = "sleep"
    /\ fails = 0

\* C12: when there is no configuration file, and likewise when the file has
\* no [molbox] section, load_config() raises nothing and returns exactly
\* host "localhost", port 23, interval 2.0 s (20 tenths), command "ALLR",
\* timeout 10; run() starts with these values.
C12_DefaultsWithoutSection ==
    file.kind \in {"absent", "no_section"} =>
        /\ pc # "unhandled"
        /\ pc \notin {"main", "exited"} => config.status = "loaded"
        /\ config.status = "loaded" =>
              /\ config.host = <<"l", "o", "c", "a", "l", "h", "o", "s", "t">>
              /\ config.port = 23
              /\ config.interval = 20
              /\ config.command = <<"A", "L", "L", "R">>
              /\ config.timeout = 10
              /\ interval = 20
              /\ command = <<"A", "L", "L", "R">>

C12_Witness ==
    /\ file.kind = "absent"
    /\ config.status = "loaded"
    /\ pc = "check" /\ success
    /\ Last(hist).op = "send_command"
    /\ config.port = 23 /\ config.timeout = 10

\* C13: when the [molbox] section sets a subset of host, port, interval,
\* command and timeout, the configuration load_config() returns has the
\* file's value (converted to a number for port, interval and timeout) in
\* every field the file sets and the default in every field it does not
\* set, whatever the other fields are.
C13_SubsetOverride ==
    (file.kind = "section" /\ config.status = "loaded") =>
        /\ file.host = Unset => config.host = <<"l", "o", "c", "a", "l", "h", "o", "s", "t">>
        /\ file.host # Unset => config.host = file.host
        /\ file.port = Unset => config.port = 23
        /\ file.port # Unset => file.port = <<"8", "0">> /\ config.port = 80
        /\ file.interval = Unset => config.interval = 20
        /\ file.interval # Unset =>
              file.interval = <<"0", ".", "5">> /\ config.interval = 5
        /\ file.command = Unset => config.command = <<"A", "L", "L", "R">>
        /\ file.command # Unset => config.command = file.command
        /\ file.timeout = Unset => config.timeout = 10
        /\ file.timeout # Unset => file.timeout = <<"3">> /\ config.timeout = 3
        /\ interval = config.interval
        /\ command = config.command

C13_Witness ==
    /\ file.kind = "section"
    /\ file.port = <<"8", "0">>
    /\ file.host = Unset /\ file.interval = Unset
    /\ file.command = Unset /\ file.timeout = Unset
    /\ config.status = "loaded"
    /\ config.port = 80
    /\ config.timeout = 10 /\ config.interval = 20
    /\ pc = "loop"

\* a file load_config() cannot turn into a configuration
Unparsable ==
    \/ file.kind = "malformed"
    \/ file.port = <<"x">>
    \/ file.interval = <<"a">>
    \/ file.timeout = <<"1", ".", "5">>

\* C11: the process exits with code 0 exactly when it was interrupted
\* (KeyboardInterrupt) and with code 1 when another exception reaches
\* main(); that exception always comes from load_config(), before run() has
\* started, and a configuration value that is not a number always ends
\* there; no exception leaves run(), so no failure of the Transport ends the
\* process.
C11_ExitCodes ==
    /\ pc = "exited" =>
          /\ Last(hist).op = "exit"
          /\ Last(hist).n \in {0, 1}
          /\ Last(hist).n = 0 <=> Last(hist).s = <<"KeyboardInterrupt">>
          /\ Last(hist).n = 1 =>
                /\ Last(hist).s = <<"load_config">>
                /\ Unparsable
                /\ config.status = "unloaded"
                /\ conns = {} /\ fails = 0
    /\ pc # "raised"
    /\ pc = "unhandled" =>
          /\ Unparsable
          /\ Last(hist).op = "raise"
          /\ Last(hist).s \in {<<"ValueError">>, <<"MissingSectionHeaderError">>}
    /\ Unparsable => pc \in {"main", "unhandled", "exited"} /\ config.status = "unloaded"

C11_Witness ==
    /\ pc = "exited"
    /\ Last(hist).op = "exit" /\ Last(hist).n = 1
    /\ file.kind = "section" /\ file.port = <<"x">>
    /\ config.status = "unloaded"

====
